---- MODULE Spec2Model ----
(***************************************************************************)
(* Model of src/lcot.py: the "Lots by Time" plugin.                        *)
(*                                                                         *)
(* Texts are sequences of one-character strings.  A Cyrillic letter is     *)
(* written as one element "c_<translit>" ("c_ch" is the letter che), so    *)
(* that a Cyrillic word is a sequence of such elements.  Hour values are   *)
(* kept in hundredths of an hour (0.5 h is 50), which is exact for every   *)
(* value round(hours, 2) can produce.                                      *)
(***************************************************************************)
EXTENDS Integers, Sequences, FiniteSets, TLC

VARIABLES
    SESSION,    \* line 38: chat id -> <<>> (no entry) or <<session>>
    state,      \* the transport's pending state tag of each chat (tg.set_state)
    previews,   \* per chat, the preview messages whose buttons are still shown
    sent,       \* per chat, the last message the bot sent or edited: <<kind, ...>>
    inventory,  \* the account's listings as the store lists them: [id, title]
    batch,      \* per handler thread, the locals of its cb_create call
    ptext,      \* DurationParser harness: the text typed so far
    pdurs,      \* DurationParser harness: _parse_durations of ptext
    fh,         \* PhraseFormatter harness: the hour value, in hundredths
    fhours,     \* PhraseFormatter harness: _ru_hours_phrase of fh
    fphrase,    \* PhraseFormatter harness: _ru_duration_phrase of fh
    rlens,      \* report packing harness: the lengths of the report lines
    rmsgs,      \* report packing harness: the messages sent, each the lines it carries
    ttext,      \* TitleRewriter harness: the text to rewrite
    tpieces,    \* TitleRewriter harness: the number of pieces ttext is made of
    thours,     \* TitleRewriter harness: the hours, in hundredths
    tloc,       \* TitleRewriter harness: the locale
    tins,       \* TitleRewriter harness: allow_insert
    tonce,      \* TitleRewriter harness: _replace_hours_in_title of ttext
    ttwice      \* TitleRewriter harness: _replace_hours_in_title of tonce

(***************************************************************************)
(* Characters                                                              *)
(***************************************************************************)
Digits == {"0", "1", "2", "3", "4", "5", "6", "7", "8", "9"}

DigitVal(c) ==
    CASE c = "0" -> 0 [] c = "1" -> 1 [] c = "2" -> 2 [] c = "3" -> 3
      [] c = "4" -> 4 [] c = "5" -> 5 [] c = "6" -> 6 [] c = "7" -> 7
      [] c = "8" -> 8 [] c = "9" -> 9

DigitChar(d) ==
    CASE d = 0 -> "0" [] d = 1 -> "1" [] d = 2 -> "2" [] d = 3 -> "3"
      [] d = 4 -> "4" [] d = 5 -> "5" [] d = 6 -> "6" [] d = 7 -> "7"
      [] d = 8 -> "8" [] d = 9 -> "9"

\* \s of the re module, over the characters the model uses
Space == {" ", "\t", "\n"}

LatinLower == {"a", "b", "c", "d", "e", "f", "g", "h", "i", "j", "k", "l", "m",
               "n", "o", "p", "q", "r", "s", "t", "u", "v", "w", "x", "y", "z"}

LatinUpper == {"A", "B", "C", "D", "E", "F", "G", "H", "I", "J", "K", "L", "M",
               "N", "O", "P", "Q", "R", "S", "T", "U", "V", "W", "X", "Y", "Z"}

Cyrillic == {"c_a", "c_v", "c_d", "c_e", "c_j", "c_n", "c_o", "c_r", "c_s",
             "c_t", "c_ch", "c_y", "c_soft", "c_ya"}

\* \w of the re module (str patterns are Unicode-aware)
WordChars == Digits \cup LatinLower \cup LatinUpper \cup Cyrillic \cup {"_"}

\* str.lower(), one character
LowerChar(c) ==
    CASE c = "A" -> "a" [] c = "B" -> "b" [] c = "C" -> "c" [] c = "D" -> "d"
      [] c = "E" -> "e" [] c = "F" -> "f" [] c = "G" -> "g" [] c = "H" -> "h"
      [] c = "I" -> "i" [] c = "J" -> "j" [] c = "K" -> "k" [] c = "L" -> "l"
      [] c = "M" -> "m" [] c = "N" -> "n" [] c = "O" -> "o" [] c = "P" -> "p"
      [] c = "Q" -> "q" [] c = "R" -> "r" [] c = "S" -> "s" [] c = "T" -> "t"
      [] c = "U" -> "u" [] c = "V" -> "v" [] c = "W" -> "w" [] c = "X" -> "x"
      [] c = "Y" -> "y" [] c = "Z" -> "z" [] OTHER -> c

\* str.lower()
Lower(t) == [i \in 1..Len(t) |-> LowerChar(t[i])]

(***************************************************************************)
(* The re module: a backtracking matcher.  A pattern is a tuple whose      *)
(* first element names its kind; a thread is the position reached and the  *)
(* spans of the capturing groups.  Run returns the threads in the order    *)
(* the backtracking search of re would try them, so the first thread that  *)
(* satisfies the caller is the match re reports.                           *)
(***************************************************************************)
RSet(S) == <<"set", S>>
RCat(rs) == <<"cat", rs>>
RAlt(rs) == <<"alt", rs>>
ROpt(r) == <<"opt", r>>
RStar(r) == <<"star", r>>
RPlus(r) == <<"cat", <<r, <<"star", r>>>>>>
RGrp(k, r) == <<"grp", k, r>>
RWordB == <<"wb">>
RLit(w) == <<"cat", [i \in 1..Len(w) |-> <<"set", {w[i]}>>]>>

NoGroups == <<<<-1, -1>>, <<-1, -1>>>>

StartAt(p) == [p |-> p, g |-> NoGroups]

\* \b at position p of t (between t[p] and t[p+1])
AtWordBoundary(t, p) ==
    LET before == p >= 1 /\ t[p] \in WordChars
        after == p < Len(t) /\ t[p + 1] \in WordChars
    IN before # after

RECURSIVE Run(_, _, _), RunEach(_, _, _), RunCat(_, _, _), RunAlt(_, _, _)

\* r continued from every thread of ths, in order
RunEach(r, t, ths) ==
    IF ths = <<>> THEN <<>>
    ELSE Run(r, t, Head(ths)) \o RunEach(r, t, Tail(ths))

\* the patterns rs one after the other, from every thread of ths
RunCat(rs, t, ths) ==
    IF rs = <<>> THEN ths
    ELSE RunCat(Tail(rs), t, RunEach(Head(rs), t, ths))

\* the alternatives rs, first to last, from one thread
RunAlt(rs, t, th) ==
    IF rs = <<>> THEN <<>>
    ELSE Run(Head(rs), t, th) \o RunAlt(Tail(rs), t, th)

Run(r, t, th) ==
    CASE r[1] = "set" ->
            IF th.p < Len(t) /\ t[th.p + 1] \in r[2]
            THEN <<[th EXCEPT !.p = @ + 1]>>
            ELSE <<>>
      [] r[1] = "cat" -> RunCat(r[2], t, <<th>>)
      [] r[1] = "alt" -> RunAlt(r[2], t, th)
      [] r[1] = "opt" -> Run(r[2], t, th) \o <<th>>
      [] r[1] = "star" ->
            LET once == SelectSeq(Run(r[2], t, th), LAMBDA x : x.p > th.p)
            IN RunEach(r, t, once) \o <<th>>
      [] r[1] = "grp" ->
            LET inner == Run(r[3], t, th)
            IN [i \in 1..Len(inner) |->
                   [inner[i] EXCEPT !.g[r[2]] = <<th.p, inner[i].p>>]]
      [] r[1] = "wb" -> IF AtWordBoundary(t, th.p) THEN <<th>> ELSE <<>>

\* re.fullmatch(r, t): the first thread that reaches the end of t, or <<>>
FullMatch(r, t) ==
    LET ends == SelectSeq(Run(r, t, StartAt(0)), LAMBDA x : x.p = Len(t))
    IN IF ends = <<>> THEN <<>> ELSE <<Head(ends)>>

\* m.group(k) of a thread m over t ("" when the group took no part)
Group(t, m, k) ==
    IF m.g[k][1] < 0 THEN <<>> ELSE SubSeq(t, m.g[k][1] + 1, m.g[k][2])

(***************************************************************************)
(* DurationParser: _parse_durations                                        *)
(***************************************************************************)
\* The characters re.split(r"[,\s;]+", ...) splits on
Separators == {",", ";"} \cup Space

\* str.strip(): leading and trailing whitespace removed
RECURSIVE LStrip(_), RStrip(_)
LStrip(t) == IF t # <<>> /\ Head(t) \in Space THEN LStrip(Tail(t)) ELSE t
RStrip(t) ==
    IF t # <<>> /\ t[Len(t)] \in Space THEN RStrip(SubSeq(t, 1, Len(t) - 1)) ELSE t
Strip(t) == LStrip(RStrip(t))

\* re.split(r"[,\s;]+", t) without the empty tokens the caller skips (line 79):
\* the maximal runs of characters that are not separators
RECURSIVE SplitFrom(_, _, _)
SplitFrom(t, i, cur) ==
    IF i > Len(t) THEN (IF cur = <<>> THEN <<>> ELSE <<cur>>)
    ELSE IF t[i] \in Separators
         THEN (IF cur = <<>> THEN <<>> ELSE <<cur>>) \o SplitFrom(t, i + 1, <<>>)
         ELSE SplitFrom(t, i + 1, Append(cur, t[i]))
SplitTokens(t) == SplitFrom(t, 1, <<>>)

HourUnits == << <<"h">>, <<"c_ch">>, <<"c_ch", ".">>, <<"c_ch", "c_a", "c_s">>,
                <<"c_ch", "c_a", "c_s", "c_a">>,
                <<"c_ch", "c_a", "c_s", "c_o", "c_v">> >>

DayUnits == << <<"d">>, <<"c_d">>, <<"c_d", "c_n">>,
               <<"c_d", "c_e", "c_n", "c_soft">>, <<"c_d", "c_n", "c_ya">>,
               <<"c_d", "c_n", "c_e", "c_j">> >>

SeqToSet(s) == {s[i] : i \in 1..Len(s)}

\* r"(\d+(?:[.,]\d+)?)(?:\s*(<hour units>|<day units>))?", lines 81-85
DurTokenPattern ==
    RCat(<< RGrp(1, RCat(<< RPlus(RSet(Digits)),
                            ROpt(RCat(<<RSet({".", ","}), RPlus(RSet(Digits))>>)) >>)),
            ROpt(RCat(<< RStar(RSet(Space)),
                         RGrp(2, RAlt([i \in 1..(Len(HourUnits) + Len(DayUnits)) |->
                                         IF i <= Len(HourUnits)
                                         THEN RLit(HourUnits[i])
                                         ELSE RLit(DayUnits[i - Len(HourUnits)])])) >>)) >>)

\* str.replace(",", ".")
CommaToDot(t) == [i \in 1..Len(t) |-> IF t[i] = "," THEN "." ELSE t[i]]

\* int(digits)
RECURSIVE DigitsVal(_)
DigitsVal(ds) ==
    IF ds = <<>> THEN 0 ELSE 10 * DigitsVal(SubSeq(ds, 1, Len(ds) - 1)) + DigitVal(ds[Len(ds)])

RECURSIVE Pow10(_)
Pow10(n) == IF n = 0 THEN 1 ELSE 10 * Pow10(n - 1)

\* float("I.F") as the fraction num/den, den a power of ten
FloatOf(t) ==
    LET dots == {i \in 1..Len(t) : t[i] = "."}
    IN IF dots = {} THEN [num |-> DigitsVal(t), den |-> 1]
       ELSE LET d == CHOOSE i \in dots : TRUE
                frac == SubSeq(t, d + 1, Len(t))
            IN [num |-> DigitsVal(SubSeq(t, 1, d - 1)) * Pow10(Len(frac)) + DigitsVal(frac),
                den |-> Pow10(Len(frac))]

\* round(num/den, 2) in hundredths.  A tie goes to the even hundredth, as round()
\* does for a float that is exactly the tie.
Round2(num, den) ==
    LET q == (num * 100) \div den
        r == (num * 100) % den
    IN IF 2 * r > den THEN q + 1
       ELSE IF 2 * r < den THEN q
       ELSE IF q % 2 = 0 THEN q ELSE q + 1

\* list(dict.fromkeys(durs)): first occurrences, in order
RECURSIVE Dedupe(_)
Dedupe(s) ==
    IF s = <<>> THEN <<>>
    ELSE LET init == Dedupe(SubSeq(s, 1, Len(s) - 1))
             x == s[Len(s)]
         IN IF x \in SeqToSet(init) THEN init ELSE Append(init, x)

\* sorted(): ascending
RECURSIVE SortAsc(_)
SortAsc(s) ==
    IF s = <<>> THEN <<>>
    ELSE LET m == CHOOSE i \in 1..Len(s) : \A j \in 1..Len(s) : s[i] <= s[j]
         IN <<s[m]>> \o SortAsc(SubSeq(s, 1, m - 1) \o SubSeq(s, m + 1, Len(s)))

\* One token of the loop body, lines 81-99: <<>> when the token is skipped,
\* else <<round(hours, 2)>>
ParseToken(tok) ==
    LET m == FullMatch(DurTokenPattern, tok)
    IN IF m = <<>> THEN <<>>
       ELSE LET val == FloatOf(CommaToDot(Group(tok, m[1], 1)))
                g2 == Group(tok, m[1], 2)
                unit == IF g2 = <<>> THEN <<"h">> ELSE Strip(g2)
            IN IF unit \in SeqToSet(HourUnits)
               THEN (IF val.num > 0 THEN <<Round2(val.num, val.den)>> ELSE <<>>)
               ELSE IF unit \in SeqToSet(DayUnits)
               THEN (IF val.num * 24 > 0 THEN <<Round2(val.num * 24, val.den)>> ELSE <<>>)
               ELSE <<>>

RECURSIVE ParseTokens(_)
ParseTokens(toks) ==
    IF toks = <<>> THEN <<>> ELSE ParseToken(Head(toks)) \o ParseTokens(Tail(toks))

_parse_durations(text) ==
    SortAsc(Dedupe(ParseTokens(SplitTokens(Strip(Lower(text))))))


(***************************************************************************)
(* PhraseFormatter                                                         *)
(***************************************************************************)
\* str(n) of a non-negative int
RECURSIVE IntStr(_)
IntStr(n) == IF n < 10 THEN <<DigitChar(n)>> ELSE Append(IntStr(n \div 10), DigitChar(n % 10))

\* str(x) of a float x = c/100: the shortest text that reads back as x
FloatStr(c) ==
    IntStr(c \div 100) \o <<".">> \o
    (IF c % 100 = 0 THEN <<"0">>
     ELSE IF c % 10 = 0 THEN <<DigitChar((c % 100) \div 10)>>
     ELSE <<DigitChar((c % 100) \div 10), DigitChar(c % 10)>>)

\* str.rstrip(ch)
RECURSIVE RStripChar(_, _)
RStripChar(t, ch) ==
    IF t # <<>> /\ t[Len(t)] = ch THEN RStripChar(SubSeq(t, 1, Len(t) - 1), ch) ELSE t

\* line 163; the hour values the plugin formats are floats
_hours_str(hours) == RStripChar(RStripChar(FloatStr(hours), "0"), ".")

HourForms == << <<"c_ch", "c_a", "c_s">>,
                <<"c_ch", "c_a", "c_s", "c_a">>,
                <<"c_ch", "c_a", "c_s", "c_o", "c_v">> >>

DayForms == << <<"c_d", "c_e", "c_n", "c_soft">>,
               <<"c_d", "c_n", "c_ya">>,
               <<"c_d", "c_n", "c_e", "c_j">> >>

\* _ru_num_word without the test of lines 141-142 for 11..19
NumWordNoTeens(n, forms) ==
    IF n % 100 # 0 THEN forms[2]
    ELSE LET n1 == ((n \div 100) % 100) % 10
         IN IF n1 = 1 THEN forms[1]
            ELSE IF 2 <= n1 /\ n1 <= 4 THEN forms[2]
            ELSE forms[3]

\* n is the numeral in hundredths; forms[1], forms[2], forms[3] are forms[0..2]
_ru_num_word(n, forms) ==
    IF n % 100 # 0 THEN forms[2]
    ELSE LET m == (n \div 100) % 100
             n1 == m % 10
         IN IF 11 <= m /\ m <= 19 THEN forms[3]
            ELSE IF n1 = 1 THEN forms[1]
            ELSE IF 2 <= n1 /\ n1 <= 4 THEN forms[2]
            ELSE forms[3]

\* <<>> stands for None
_ru_days_phrase(hours) ==
    IF hours % 100 = 0 /\ hours \div 100 >= 24 /\ (hours \div 100) % 24 = 0
    THEN LET d == (hours \div 100) \div 24
         IN IntStr(d) \o <<" ">> \o _ru_num_word(d * 100, DayForms)
    ELSE <<>>

_ru_hours_phrase(hours) ==
    _hours_str(hours) \o <<" ">> \o _ru_num_word(hours, HourForms)

_ru_duration_phrase(hours) ==
    LET days == _ru_days_phrase(hours)
    IN IF days # <<>> THEN days ELSE _ru_hours_phrase(hours)

_en_duration_phrase(hours) ==
    IF hours % 100 = 0 /\ hours \div 100 >= 24 /\ (hours \div 100) % 24 = 0
    THEN LET d == (hours \div 100) \div 24
         IN IntStr(d) \o <<" ">> \o
            (IF d = 1 THEN <<"d", "a", "y">> ELSE <<"d", "a", "y", "s">>)
    ELSE _hours_str(hours) \o <<" ">> \o
         (IF hours = 100 THEN <<"h", "o", "u", "r">> ELSE <<"h", "o", "u", "r", "s">>)


(***************************************************************************)
(* TitleRewriter: _replace_hours_in_title                                  *)
(***************************************************************************)
UpperChar(c) ==
    IF \E u \in LatinUpper : LowerChar(u) = c
    THEN CHOOSE u \in LatinUpper : LowerChar(u) = c
    ELSE c

\* a literal under re.IGNORECASE
RLitI(w) == <<"cat", [i \in 1..Len(w) |-> <<"set", {w[i], UpperChar(w[i])}>>]>>

\* "u_bullet" is the bullet, "u_timer" the stopwatch glyph, "u_dash" a dash of HY
BULLET == "u_bullet"
TIMER == "u_timer"
HY == {"-", "u_dash"}

\* \d+(?:[.,]\d+)?
RNumber == RCat(<< RPlus(RSet(Digits)),
                   ROpt(RCat(<<RSet({".", ","}), RPlus(RSet(Digits))>>)) >>)
RSpaces == RStar(RSet(Space))

\* (?:a|ov)? after "chas"
RChasTail == ROpt(RAlt(<< RLitI(<<"c_a">>), RLitI(<<"c_o", "c_v">>) >>))
\* ch(?:\.|as(?:a|ov)?)?
RChUnit == RCat(<< RLitI(<<"c_ch">>),
                   ROpt(RAlt(<< RSet({"."}),
                                RCat(<<RLitI(<<"c_a", "c_s">>), RChasTail>>) >>)) >>)
\* (?:na|ot)
RNaOt == RAlt(<< RLitI(<<"c_n", "c_a">>), RLitI(<<"c_o", "c_t">>) >>)

\* lines 180-194, in order; keep1: the replacement starts with m.group(1)
RuPatterns ==
    << [keep1 |-> TRUE,
        pat |-> RCat(<< RGrp(1, RCat(<< RWordB, RSet({"1"}), RSpaces,
                                        ROpt(RAlt(<< RLitI(<<"c_ch">>),
                                                     RCat(<<RLitI(<<"c_ch", "c_a", "c_s">>), RChasTail>>) >>)),
                                        ROpt(RSet({"."})), RSpaces,
                                        RSet(HY \cup {"="}), RSpaces >>)),
                        RNumber, RSpaces, RChUnit, RWordB >>)],
       [keep1 |-> FALSE,
        pat |-> RCat(<< RWordB, RNaOt, RSpaces, RNumber, RSpaces, RChUnit, RWordB >>)],
       [keep1 |-> FALSE,
        pat |-> RCat(<< RWordB, RNaOt, RSpaces, RNumber, RSpaces,
                        RAlt(<< RCat(<< RLitI(<<"c_d", "c_n">>),
                                        ROpt(RAlt(<< RLitI(<<"c_ya">>), RLitI(<<"c_e", "c_j">>) >>)) >>),
                                RLitI(<<"c_d", "c_e", "c_n", "c_soft">>) >>),
                        RWordB >>)],
       [keep1 |-> FALSE,
        pat |-> RCat(<< RWordB, RNumber, RSpaces, RLitI(<<"c_ch", "c_a", "c_s">>), RChasTail,
                        RWordB,
                        ROpt(RCat(<<RSpaces, RLitI(<<"c_a", "c_r", "c_e", "c_n", "c_d", "c_y">>)>>)) >>)],
       [keep1 |-> FALSE,
        pat |-> RCat(<< ROpt(RCat(<<RSet({BULLET}), RSpaces>>)),
                        RLitI(<<"c_a", "c_r", "c_e", "c_n", "c_d", "c_a">>), RSpaces, RNumber,
                        RSpaces, RLitI(<<"c_ch">>), ROpt(RSet({"."})), RWordB >>)] >>

RForFrom == RAlt(<< RLitI(<<"f", "o", "r">>), RLitI(<<"f", "r", "o", "m">>) >>)
RHourAbbr == RAlt(<< RLitI(<<"h">>), RLitI(<<"h", "r">>), RLitI(<<"h", "r", "s">>) >>)
RDayWord == RAlt(<< RLitI(<<"d">>), RLitI(<<"d", "a", "y">>), RLitI(<<"d", "a", "y", "s">>) >>)
RRental == RLitI(<<"r", "e", "n", "t", "a", "l">>)

\* lines 214-225, in order
EnPatterns ==
    << [keep1 |-> FALSE,
        pat |-> RCat(<< RWordB, RForFrom, RSpaces, RNumber, RSpaces,
                        RAlt(<< RLitI(<<"h">>), RLitI(<<"h", "r">>), RLitI(<<"h", "r", "s">>),
                                RLitI(<<"h", "o", "u", "r">>), RLitI(<<"h", "o", "u", "r", "s">>) >>),
                        RWordB >>)],
       [keep1 |-> FALSE,
        pat |-> RCat(<< RWordB, RForFrom, RSpaces, RNumber, RSpaces, RDayWord, RWordB >>)],
       [keep1 |-> FALSE,
        pat |-> RCat(<< ROpt(RCat(<<RSet({BULLET}), RSpaces>>)), RRental, RSpaces, RNumber,
                        RSpaces, RHourAbbr, RWordB >>)],
       [keep1 |-> FALSE,
        pat |-> RCat(<< ROpt(RCat(<<RSet({BULLET}), RSpaces>>)), RRental, RSpaces, RNumber,
                        RSpaces, RDayWord, RWordB >>)],
       [keep1 |-> FALSE,
        pat |-> RCat(<< RWordB, RNumber, RSpaces,
                        RAlt(<< RLitI(<<"h", "o", "u", "r">>), RLitI(<<"h", "o", "u", "r", "s">>),
                                RLitI(<<"d", "a", "y">>), RLitI(<<"d", "a", "y", "s">>) >>),
                        RWordB, ROpt(RCat(<<RSpaces, RRental>>)) >>)] >>

\* re.search from position pos (0-based): <<start, thread>> of the leftmost match,
\* or <<>>
RECURSIVE SearchFrom(_, _, _)
SearchFrom(pat, t, pos) ==
    IF pos > Len(t) THEN <<>>
    ELSE LET ths == Run(pat, t, StartAt(pos))
         IN IF ths # <<>> THEN <<pos, Head(ths)>> ELSE SearchFrom(pat, t, pos + 1)

\* re.subn(pat, repl, t, count): every match (count = 0) or the first count matches
\* replaced, left to right; the patterns used never match the empty text
RECURSIVE SubnFrom(_, _, _, _, _, _)
SubnFrom(e, t, pos, phrase, count, n) ==
    LET hit == IF count # 0 /\ n >= count THEN <<>> ELSE SearchFrom(e.pat, t, pos)
    IN IF hit = <<>> \/ (hit # <<>> /\ hit[2].p = hit[1])
       THEN [text |-> SubSeq(t, pos + 1, Len(t)), n |-> n]
       ELSE LET rest == SubnFrom(e, t, hit[2].p, phrase, count, n + 1)
                repl == (IF e.keep1 THEN Group(t, hit[2], 1) ELSE <<>>) \o phrase
            IN [text |-> SubSeq(t, pos + 1, hit[1]) \o repl \o rest.text, n |-> rest.n]

Subn(e, t, phrase, count) == SubnFrom(e, t, 0, phrase, count, 0)

\* A cascade that replaces only the first occurrence of the pattern that decides
RECURSIVE CascadeOnce(_, _, _, _)
CascadeOnce(patterns, t, phrases, i) ==
    IF i > Len(patterns) THEN <<>>
    ELSE LET r == Subn(patterns[i], t, phrases[i], 1)
         IN IF r.n > 0 THEN <<r.text>> ELSE CascadeOnce(patterns, t, phrases, i + 1)

\* lines 196-199 and 227-230: the first pattern with a match decides
RECURSIVE Cascade(_, _, _, _)
Cascade(patterns, t, phrases, i) ==
    IF i > Len(patterns) THEN <<>>
    ELSE LET r == Subn(patterns[i], t, phrases[i], 0)
         IN IF r.n > 0 THEN <<r.text>> ELSE Cascade(patterns, t, phrases, i + 1)

\* sub in t
Contains(t, sub) ==
    \E i \in 0..(Len(t) - Len(sub)) : SubSeq(t, i + 1, i + Len(sub)) = sub

\* r"\s*<timer>", line 206
TimerPattern == [keep1 |-> FALSE, pat |-> RCat(<<RSpaces, RSet({TIMER})>>)]

\* lines 201-209 and 232-240
InsertPhrase(t, target_phrase, insert) ==
    IF TIMER \in SeqToSet(t) THEN Subn(TimerPattern, t, insert \o <<TIMER>>, 1).text
    ELSE IF ~Contains(t, target_phrase) THEN Strip(t \o insert)
    ELSE t

_replace_hours_in_title(title, hours, locale, allow_insert) ==
    IF title = <<>> THEN title
    ELSE IF locale = "ru"
    THEN LET target_phrase == <<"c_n", "c_a", " ">> \o _ru_duration_phrase(hours)
             ru_hours == _ru_hours_phrase(hours)
             done == Cascade(RuPatterns, title,
                             <<ru_hours, target_phrase, target_phrase, target_phrase,
                               target_phrase>>, 1)
         IN IF done # <<>> THEN done[1]
            ELSE IF ~allow_insert THEN title
            ELSE InsertPhrase(title, target_phrase, <<" ">> \o target_phrase \o <<" ">>)
    ELSE LET target_phrase == <<"f", "o", "r", " ">> \o _en_duration_phrase(hours)
             done == Cascade(EnPatterns, title,
                             <<target_phrase, target_phrase, target_phrase, target_phrase,
                               target_phrase>>, 1)
         IN IF done # <<>> THEN done[1]
            ELSE IF ~allow_insert THEN title
            ELSE InsertPhrase(title, target_phrase,
                              <<" ", BULLET, " ">> \o target_phrase \o <<" ">>)

(***************************************************************************)
(* The listing store, as the plugin reads it                               *)
(***************************************************************************)
\* dict.get(k) or "": a missing key and an empty value both read as <<>>
Get(f, k) == IF k \in DOMAIN f THEN f[k] ELSE <<>>

\* f[k] = v
Put(f, k, v) == [x \in (DOMAIN f) \cup {k} |-> IF x = k THEN v ELSE f[x]]

K_PRICE == "price"
K_SUM_RU == "fields[summary][ru]"
K_SUM_EN == "fields[summary][en]"
K_DESC_RU == "fields[desc][ru]"
K_DESC_EN == "fields[desc][en]"
K_OFFER == "offer_id"
K_CSRF == "csrf_token"
K_SERVER == "fields[server]"

\* The source listings of the account.  301 mentions a duration in both titles and
\* in its description; 305 mentions none and has no description.
CatalogIds == {301, 305}

Catalog(id) ==
    IF id = 301
    THEN [x \in {K_PRICE, K_SUM_RU, K_SUM_EN, K_DESC_EN, K_OFFER, K_CSRF, K_SERVER} |->
            CASE x = K_PRICE -> <<"5", "0">>
              [] x = K_SUM_RU -> <<"c_n", "c_a", " ", "3", " ", "c_ch", "c_a", "c_s", "c_a">>
              [] x = K_SUM_EN -> <<"V", "I", "P", " ", "f", "o", "r", " ", "3", " ", "h", "o", "u", "r", "s">>
              [] x = K_DESC_EN -> <<"3", " ", "h", "o", "u", "r", "s", " ", "r", "e", "n", "t", "a", "l">>
              [] x = K_OFFER -> <<"3", "0", "1">>
              [] x = K_CSRF -> <<"o", "l", "d">>
              [] x = K_SERVER -> <<"E", "U">>]
    ELSE [x \in {K_PRICE, K_SUM_RU, K_SUM_EN, K_OFFER, K_CSRF, K_SERVER} |->
            CASE x = K_PRICE -> <<"3", "0">>
              [] x = K_SUM_RU -> <<"c_t", "c_e", "c_s", "c_t">>
              [] x = K_SUM_EN -> <<"V", "I", "P">>
              [] x = K_OFFER -> <<"3", "0", "5">>
              [] x = K_CSRF -> <<"o", "l", "d">>
              [] x = K_SERVER -> <<"U", "S">>]

(***************************************************************************)
(* Workflow steps                                                          *)
(***************************************************************************)
Keys == {"chatA", "chatB"}

\* Preview messages a chat may hold with their buttons shown
MaxPreviews == 1

STATE_NONE == "NONE"
STATE_WAIT_LOT == "WAIT_LOT"
STATE_WAIT_DURS == "WAIT_DURS"
STATE_WAIT_DISC == "WAIT_DISC"

\* str.isdigit()
IsDigit(t) == t # <<>> /\ \A i \in 1..Len(t) : t[i] \in Digits

\* lines 275-281: the ids of the message, first occurrences in order
LotIdsOf(text) ==
    LET toks == SplitTokens(Strip(text))
        digs == SelectSeq(toks, IsDigit)
    IN Dedupe([i \in 1..Len(digs) |-> DigitsVal(digs[i])])

\* lines 295-309: the BaseListing captured from the fetched fields.  Prices of the
\* catalog are whole numbers, so price_1h is an integer.
BaseOf(fields) ==
    [fields |-> fields,
     title_ru |-> Get(fields, K_SUM_RU),
     title_en |-> Get(fields, K_SUM_EN),
     price_1h |-> LET pr == FloatOf(CommaToDot(Get(fields, K_PRICE)))
                  IN pr.num \div pr.den]

\* lines 311-320
NewSession(ids) ==
    LET bases == [id \in SeqToSet(ids) |-> BaseOf(Catalog(id))]
    IN [lot_ids |-> ids,
        bases |-> bases,
        price_1h |-> bases[ids[1]].price_1h,
        title_ru |-> bases[ids[1]].title_ru,
        title_en |-> bases[ids[1]].title_en,
        durs |-> <<>>,
        disc |-> 0]

\* r"\s*(\d+(?:\.\d+)?)\s*%?\s*", line 364
DiscPattern ==
    RCat(<< RStar(RSet(Space)),
            RGrp(1, RCat(<< RPlus(RSet(Digits)),
                            ROpt(RCat(<<RSet({"."}), RPlus(RSet(Digits))>>)) >>)),
            RStar(RSet(Space)), ROpt(RSet({"%"})), RStar(RSet(Space)) >>)

\* lines 362-371: <<>> when the text is refused, else <<disc>> with disc in
\* hundredths of a percent
DiscountOf(text) ==
    LET raw == CommaToDot(Strip(text))
        m == FullMatch(DiscPattern, raw)
    IN IF m = <<>> THEN <<>>
       ELSE LET d == FloatOf(Group(raw, m[1], 1))
            IN IF d.num < 0 \/ d.num > 90 * d.den THEN <<>>
               ELSE <<(d.num * 10000) \div (d.den * 100)>>

\* Messages the chats send.  "301 305,301" names two listings, one of them twice;
\* 402 is no listing of the account.
IdTexts ==
    { <<"3", "0", "1", " ", "3", "0", "5", ",", "3", "0", "1">>,
      <<"4", "0", "2">>,
      <<"i", "d">> }

\* The message of a chat that asks for the variants of one listing, and asks again
RepeatTexts == { <<"3", "0", "5">> }

DurTexts ==
    { <<"1", " ", "2", "4">>,
      <<"s", "o", "o", "n">> }

DiscTexts ==
    { <<"2", "0", "%">>,
      <<"9", "5">>,
      <<"-", "5">> }

\* The three readers applied to the messages above, computed once
LotIdsTable == [text \in IdTexts \cup RepeatTexts |-> LotIdsOf(text)]
DursTable == [text \in DurTexts |-> _parse_durations(text)]
DiscTable == [text \in DiscTexts |-> DiscountOf(text)]

\* The variables of the harnesses of the pure functions, which no handler touches
packing == <<rlens, rmsgs>>
rewriting == <<ttext, tpieces, thours, tloc, tins, tonce, ttwice>>
harness == <<ptext, pdurs, fh, fhours, fphrase, packing, rewriting>>

\* cmd_lcot, lines 264-271
cmd_lcot(k) ==
    /\ state' = [state EXCEPT ![k] = STATE_WAIT_LOT]
    /\ sent' = [sent EXCEPT ![k] = <<"ask_ids">>]
    /\ UNCHANGED <<SESSION, previews, inventory, batch, harness>>

\* lines 287-293: the position of the first id of ids whose fetch raises, 0 when
\* every fetch answers
FirstFailing(ids, down) ==
    LET failing == {i \in 1..Len(ids) : ids[i] = down \/ ids[i] \notin CatalogIds}
    IN IF failing = {} THEN 0 ELSE CHOOSE i \in failing : \A j \in failing : i <= j

\* A step that leaves behind a session of the listings fetched before the failure
SessionKeepingFetched(k, ids, bad) ==
    IF bad > 1 THEN [SESSION EXCEPT ![k] = <<NewSession(SubSeq(ids, 1, bad - 1))>>]
    ELSE IF bad = 1 THEN SESSION
    ELSE [SESSION EXCEPT ![k] = <<NewSession(ids)>>]

\* A step that updates the session it finds instead of replacing it
SessionMerged(k, ids, bad) ==
    IF bad # 0 THEN SESSION
    ELSE IF SESSION[k] = <<>> THEN [SESSION EXCEPT ![k] = <<NewSession(ids)>>]
    ELSE [SESSION EXCEPT ![k] = <<[NewSession(ids) EXCEPT !.durs = SESSION[k][1].durs,
                                                          !.disc = SESSION[k][1].disc]>>]

\* lines 286-320: the session map after the fetches of ids, of which the one at
\* position bad raised (0: none).  bases is a local until every fetch has answered;
\* the assignment of line 312 replaces whatever the key held.
SessionAfterFetch(k, ids, bad) ==
    IF bad # 0 THEN SESSION ELSE [SESSION EXCEPT ![k] = <<NewSession(ids)>>]

\* handle_lot_id, lines 273-330.  down is the id whose fetch raises (0: none);
\* an id the account does not have always raises.
handle_lot_id(k, text, down) ==
    /\ state[k] = STATE_WAIT_LOT
    /\ LET ids == LotIdsTable[text]
           bad == FirstFailing(ids, down)
       IN IF ids = <<>>
          THEN /\ state' = [state EXCEPT ![k] = STATE_NONE]
               /\ sent' = [sent EXCEPT ![k] = <<"no_ids">>]
               /\ UNCHANGED SESSION
          ELSE /\ SESSION' = SessionAfterFetch(k, ids, bad)
               /\ state' = [state EXCEPT ![k] =
                               IF bad # 0 THEN STATE_NONE ELSE STATE_WAIT_DURS]
               /\ sent' = [sent EXCEPT ![k] =
                              IF bad # 0 THEN <<"fetch_failed", ids[bad]>>
                              ELSE <<"ask_durs", ids[1]>>]
    /\ UNCHANGED <<previews, inventory, batch, harness>>

\* handle_durations, lines 332-354
handle_durations(k, text) ==
    /\ state[k] = STATE_WAIT_DURS
    /\ LET durs == DursTable[text]
       IN IF SESSION[k] = <<>>
          THEN /\ state' = [state EXCEPT ![k] = STATE_NONE]
               /\ sent' = [sent EXCEPT ![k] = <<"no_session">>]
               /\ UNCHANGED SESSION
          ELSE IF durs = <<>>
          THEN /\ state' = [state EXCEPT ![k] = STATE_NONE]
               /\ sent' = [sent EXCEPT ![k] = <<"bad_durs">>]
               /\ UNCHANGED SESSION
          ELSE /\ SESSION' = [SESSION EXCEPT ![k] = <<[@[1] EXCEPT !.durs = durs]>>]
               /\ state' = [state EXCEPT ![k] = STATE_WAIT_DISC]
               /\ sent' = [sent EXCEPT ![k] = <<"ask_disc">>]
    /\ UNCHANGED <<previews, inventory, batch, harness>>

\* handle_discount, lines 356-393.  The preview it sends carries the two buttons;
\* MaxPreviews caps how many such messages a chat collects.
handle_discount(k, text) ==
    /\ state[k] = STATE_WAIT_DISC
    /\ state' = [state EXCEPT ![k] = STATE_NONE]
    /\ LET disc == DiscTable[text]
       IN IF SESSION[k] = <<>>
          THEN /\ sent' = [sent EXCEPT ![k] = <<"no_session">>]
               /\ UNCHANGED <<SESSION, previews>>
          ELSE IF disc = <<>>
          THEN /\ sent' = [sent EXCEPT ![k] = <<"bad_disc">>]
               /\ UNCHANGED <<SESSION, previews>>
          ELSE /\ previews[k] < MaxPreviews
               /\ SESSION' = [SESSION EXCEPT ![k] = <<[@[1] EXCEPT !.disc = disc[1]]>>]
               /\ previews' = [previews EXCEPT ![k] = @ + 1]
               /\ sent' = [sent EXCEPT ![k] =
                     <<"preview", Len(SESSION[k][1].lot_ids) * Len(SESSION[k][1].durs), disc[1]>>]
    /\ UNCHANGED <<inventory, batch, harness>>


(***************************************************************************)
(* PriceCalculator                                                         *)
(***************************************************************************)
\* lines 451-453: price_1h (whole units) * h (hundredths) * (1 - disc/100), disc in
\* hundredths of a percent: the product is the price in millionths
PriceOf(price_1h, h, disc) ==
    IF disc # 0 THEN price_1h * h * (10000 - disc) ELSE price_1h * h * 10000

\* str(n) padded with zeros on the left to width w
RECURSIVE ZeroPad(_, _)
ZeroPad(t, w) == IF Len(t) >= w THEN t ELSE ZeroPad(<<"0">> \o t, w)

\* line 43, f"{v:.6f}" of a price in millionths
_fmt_price(v) == IntStr(v \div 1000000) \o <<".">> \o ZeroPad(IntStr(v % 1000000), 6)

(***************************************************************************)
(* BatchOrchestrator: cb_create                                            *)
(***************************************************************************)
Workers == {"t1", "t2"}

\* The id the store gives its next listing; ids of new listings have six digits
FirstNewId == 100001
NextStoreId == FirstNewId + (Len(inventory) - Cardinality(CatalogIds))

\* Listings the batches of one run may create in all
MaxCreated == 4

\* What save_lot can answer.  kind "raise": it raised; "dict": a mapping with a
\* "url"; "int", "str": the id itself; "none": None.
RetRaise == [kind |-> "raise", url |-> <<>>, v |-> 0]
RetDict(url) == [kind |-> "dict", url |-> url, v |-> 0]
RetInt(n) == [kind |-> "int", url |-> <<>>, v |-> n]
RetStr(n) == [kind |-> "str", url |-> IntStr(n), v |-> 0]
RetNone == [kind |-> "none", url |-> <<>>, v |-> 0]

UrlOf(id) == <<"/", "o", "f", "f", "e", "r", "?", "i", "d", "=">> \o IntStr(id)

\* r"(\d{6,})", line 477
UrlIdPattern ==
    [keep1 |-> FALSE,
     pat |-> RGrp(1, RCat(<< RSet(Digits), RSet(Digits), RSet(Digits), RSet(Digits),
                             RSet(Digits), RSet(Digits), RStar(RSet(Digits)) >>))]

\* lines 475-479: the id the structured response carries, 0 when none
StructuredId(ret) ==
    IF ret.kind = "dict"
    THEN LET m == SearchFrom(UrlIdPattern.pat, ret.url, 0)
         IN IF m = <<>> THEN 0 ELSE DigitsVal(Group(ret.url, m[2], 1))
    ELSE 0

\* lines 482-485: the integer-like return value, 0 when none
ReturnedId(ret) ==
    IF ret.kind = "int" /\ ret.v > 0 THEN ret.v
    ELSE IF ret.kind = "str" /\ IsDigit(ret.url) THEN DigitsVal(ret.url)
    ELSE 0

\* _guess_created_id, lines 45-71.  lots is what get_lots() answers; 0 stands for None
_guess_created_id(lots, fields) ==
    LET own == SelectSeq(<<Strip(Get(fields, K_OFFER)), Strip(Get(fields, "id"))>>,
                         LAMBDA v : IsDigit(v) /\ DigitsVal(v) > 0)
        titles == {Strip(Get(fields, K_SUM_RU)), Strip(Get(fields, K_SUM_EN))} \ {<<>>}
        hits == SelectSeq(lots, LAMBDA it : Strip(it.title) # <<>> /\ Strip(it.title) \in titles)
    IN IF own # <<>> THEN DigitsVal(own[1])
       ELSE IF hits # <<>> THEN hits[1].id
       ELSE 0

\* lines 475-499: the id recorded for a submission the store accepted.  Line 481
\* sets new_id to None after the structured response was read.  attr is the id the
\* submitted object carries after the save (0: none), lots the inventory the
\* reverse lookup sees.
RecoverId(ret, attr, lots, fields) ==
    LET structured == StructuredId(ret)
        reset == 0
        returned == IF ReturnedId(ret) # 0 THEN ReturnedId(ret) ELSE reset
        fromAttr == IF returned = 0 /\ attr > 0 THEN attr ELSE returned
    IN IF fromAttr = 0 THEN _guess_created_id(lots, fields) ELSE fromAttr

\* lines 455-460: the summary under key is rewritten from the base title, when the
\* base has one
SetTitle(f, key, title, h, locale) ==
    IF title # <<>> THEN Put(f, key, _replace_hours_in_title(title, h, locale, TRUE)) ELSE f

\* lines 462-466: a description that is present is rewritten in place, nothing is
\* inserted into it
RewriteDesc(f, key, h, locale) ==
    IF Get(f, key) # <<>>
    THEN Put(f, key, _replace_hours_in_title(Get(f, key), h, locale, FALSE))
    ELSE f

\* lines 449-469: the field mapping of the variant of base for h hours
VariantFields(base, h, disc, csrf) ==
    Put(Put(RewriteDesc(RewriteDesc(SetTitle(SetTitle(
                Put(base.fields, K_PRICE, _fmt_price(PriceOf(base.price_1h, h, disc))),
                K_SUM_RU, base.title_ru, h, "ru"),
                K_SUM_EN, base.title_en, h, "en"),
                K_DESC_RU, h, "ru"),
                K_DESC_EN, h, "en"),
            K_OFFER, <<"0">>),
        K_CSRF, csrf)

\* account.csrf_token at submission time
CsrfToken == <<"n", "e", "w">>

\* VariantFields over the listings, hours and discounts a session can hold,
\* computed once
VariantTable ==
    [base \in {BaseOf(Catalog(id)) : id \in CatalogIds},
     h \in UNION {SeqToSet(DursTable[text]) : text \in DurTexts},
     disc \in {0} \cup UNION {SeqToSet(DiscTable[text]) : text \in DiscTexts} |->
        VariantFields(base, h, disc, CsrfToken)]

NoFields == [x \in {} |-> <<>>]

IdleBatch ==
    [pc |-> "idle", chat |-> "", lot_ids |-> <<>>, bases |-> NoFields, durs |-> <<>>,
     disc |-> 0, i |-> 1, j |-> 1, src_id |-> 0, h |-> 0, created |-> 0, failed |-> 0,
     created_details |-> <<>>, fields |-> NoFields, ret |-> RetNone,
     reports |-> [ids_only |-> <<>>, with_time |-> <<>>]]

\* cb_create up to the loop, lines 402-429.  edited: the edit of the preview message
\* went through, which takes its buttons away (an exception of the edit is swallowed).
CreateBegin(w, k, edited) ==
    /\ batch[w].pc # "loop"
    /\ previews[k] > 0
    /\ IF SESSION[k] = <<>>
       THEN UNCHANGED <<batch, previews, sent>>
       ELSE LET sess == SESSION[k][1]
            IN /\ Len(inventory) - Cardinality(CatalogIds)
                    + Len(sess.lot_ids) * Len(sess.durs) <= MaxCreated
               /\ batch' = [batch EXCEPT ![w] =
                     [IdleBatch EXCEPT !.pc = "loop", !.chat = k,
                                       !.lot_ids = sess.lot_ids, !.bases = sess.bases,
                                       !.durs = sess.durs, !.disc = sess.disc]]
               /\ previews' = [previews EXCEPT ![k] = IF edited THEN @ - 1 ELSE @]
               /\ sent' = [sent EXCEPT ![k] = IF edited THEN <<"creating">> ELSE @]
    /\ UNCHANGED <<SESSION, state, inventory, harness>>

\* The loops have a pair left to submit
HasPair(b) == b.pc = "loop" /\ b.durs # <<>> /\ b.i <= Len(b.lot_ids)

\* Every variant built from the listing the preview was priced with
BaseOfFirst(b, src_id) == b.bases[b.lot_ids[1]]

\* lines 432-440: the BaseListing the variants of src_id are built from
BaseFor(b, src_id) == b.bases[src_id]

\* A batch that gives up on its source once one of its submissions has raised
AdvanceAborting(b, raised) ==
    IF raised \/ b.j = Len(b.durs) THEN [b EXCEPT !.i = @ + 1, !.j = 1]
    ELSE [b EXCEPT !.j = @ + 1]

\* A loop that submits a pair again when its submission has raised
AdvanceRetrying(b, raised) ==
    IF raised THEN b
    ELSE IF b.j = Len(b.durs) THEN [b EXCEPT !.i = @ + 1, !.j = 1]
    ELSE [b EXCEPT !.j = @ + 1]

\* The two for loops, lines 431 and 447: the pair after (i, j).  A submission that
\* raised (lines 503-505) moves on like any other.
Advance(b, raised) ==
    IF b.j = Len(b.durs) THEN [b EXCEPT !.i = @ + 1, !.j = 1] ELSE [b EXCEPT !.j = @ + 1]

\* The listing the store adds for an accepted submission of fields
Listing(fields) ==
    [id |-> NextStoreId,
     title |-> IF Get(fields, K_SUM_RU) # <<>> THEN Get(fields, K_SUM_RU)
               ELSE Get(fields, K_SUM_EN)]

\* What get_lots() shows the reverse lookup (line 493): "new" with the listing just
\* created, "old" without it (a cached profile)
LotsSeen(seen, listing) == IF seen = "new" THEN Append(inventory, listing) ELSE inventory

\* A save whose variant was built in the captured field mapping itself, not in a
\* copy of it
SavedInPlace(w, moved, src_id, h, fields, ret, attr, seen) ==
    IF ret.kind = "raise"
    THEN /\ batch' = [batch EXCEPT ![w] =
               [moved EXCEPT !.failed = @ + 1, !.bases[src_id].fields = fields]]
         /\ UNCHANGED inventory
    ELSE /\ batch' = [batch EXCEPT ![w] =
               [moved EXCEPT !.created = @ + 1,
                             !.bases[src_id].fields = fields,
                             !.created_details =
                                 Append(@, <<RecoverId(ret, attr, LotsSeen(seen, Listing(fields)),
                                                       fields), h, src_id>>)]]
         /\ inventory' = Append(inventory, Listing(fields))

\* lines 471-505: save_lot answered ret for the variant fields of (src_id, h)
Saved(w, moved, src_id, h, fields, ret, attr, seen) ==
    IF ret.kind = "raise"
    THEN /\ batch' = [batch EXCEPT ![w] = [moved EXCEPT !.failed = @ + 1]]
         /\ UNCHANGED inventory
    ELSE /\ batch' = [batch EXCEPT ![w] =
               [moved EXCEPT !.created = @ + 1,
                             !.created_details =
                                 Append(@, <<RecoverId(ret, attr, LotsSeen(seen, Listing(fields)),
                                                       fields), h, src_id>>)]]
         /\ inventory' = Append(inventory, Listing(fields))

\* lines 447-469: the pair (lot_ids[i], durs[j]) and its variant fields
Prepared(w, b, src_id, h, fields, ret, attr, seen) ==
    Saved(w, [Advance(b, ret.kind = "raise") EXCEPT
                 !.src_id = src_id, !.h = h, !.fields = fields, !.ret = ret],
          src_id, h, fields, ret, attr, seen)

\* One pass of the inner loop body, lines 447-505, for the pair (lot_ids[i], durs[j]).
\* ret is what save_lot does, attr the id found on the submitted object, seen the
\* inventory the reverse lookup is shown.
Submit(w, ret, attr, seen) ==
    /\ HasPair(batch[w])
    /\ Prepared(w, batch[w], batch[w].lot_ids[batch[w].i], batch[w].durs[batch[w].j],
                VariantTable[BaseFor(batch[w], batch[w].lot_ids[batch[w].i]),
                             batch[w].durs[batch[w].j], batch[w].disc],
                ret, attr, seen)
    /\ UNCHANGED <<SESSION, state, previews, sent, harness>>

(***************************************************************************)
(* The reports of cb_create, lines 510-549                                 *)
(***************************************************************************)
\* The character budget of one report message, lines 525 and 544
REPORT_BUDGET == 3500

\* sep.join(texts)
RECURSIVE Join(_, _)
Join(texts, sep) ==
    IF texts = <<>> THEN <<>>
    ELSE IF Len(texts) = 1 THEN texts[1]
    ELSE texts[1] \o sep \o Join(Tail(texts), sep)

\* lines 510-514: the outcomes of src in the order they were recorded
OutcomesOf(details, src) == SelectSeq(details, LAMBDA e : e[3] = src)

\* lines 519 and 535: the ids of src that are there (an absent id is left out)
IdTextsOf(own) ==
    LET found == SelectSeq(own, LAMBDA e : e[1] > 0)
    IN [n \in 1..Len(found) |-> IntStr(found[n][1])]

\* line 537: the duration phrase of every outcome of src
TimesOf(own) == [n \in 1..Len(own) |-> _ru_duration_phrase(own[n][2])]

\* f'(iz "{src}") ', lines 521 and 539
SrcPrefix(src) ==
    <<"(", "c_i", "c_z", " ", "u_quot">> \o IntStr(src) \o <<"u_quot", ")", " ">>

\* lines 516-521: the line of src in the view of ids only
LineIdsOnly(src, ids) ==
    [src |-> src, ids |-> ids, times |-> <<>>,
     text |-> SrcPrefix(src) \o Join(ids, <<",", " ">>)]

\* lines 532-539: the line of src in the view of ids and durations
LineWithTime(src, ids, times) ==
    [src |-> src, ids |-> ids, times |-> times,
     text |-> SrcPrefix(src) \o (IF ids # <<>> THEN Join(ids, <<",", " ">>) ELSE <<"u_mdash">>)
                 \o <<" ", "-", " ">> \o Join(times, <<",", " ">>)]

\* lines 516-521: one line per source that has an id, in the order of lot_ids
lines_ids_only(lot_ids, details) ==
    SelectSeq([n \in 1..Len(lot_ids) |->
                  LineIdsOnly(lot_ids[n], IdTextsOf(OutcomesOf(details, lot_ids[n])))],
              LAMBDA ln : ln.ids # <<>>)

\* lines 532-539: one line per source that has an outcome, in the order of lot_ids
lines_with_time(lot_ids, details) ==
    SelectSeq([n \in 1..Len(lot_ids) |->
                  LineWithTime(lot_ids[n], IdTextsOf(OutcomesOf(details, lot_ids[n])),
                               TimesOf(OutcomesOf(details, lot_ids[n])))],
              LAMBDA ln : ln.times # <<>>)

\* lines 523-528 and 542-547: the loop over the lines from the n-th on; chunk holds
\* the lines gathered, acc their lengths plus one each, out the chunks sent
RECURSIVE PackFrom(_, _, _, _, _, _)
PackFrom(lines, lens, n, chunk, acc, out) ==
    IF n > Len(lines) THEN [chunk |-> chunk, out |-> out]
    ELSE IF acc + lens[n] + 1 > REPORT_BUDGET
    THEN PackFrom(lines, lens, n + 1, <<lines[n]>>, lens[n] + 1, Append(out, chunk))
    ELSE PackFrom(lines, lens, n + 1, Append(chunk, lines[n]), acc + lens[n] + 1, out)

\* lines 522-530 and 541-549: the messages of one view, each the lines it carries
Pack(lines, lens) ==
    IF lines = <<>> THEN <<>>
    ELSE LET p == PackFrom(lines, lens, 1, <<>>, 0, <<>>)
         IN IF p.chunk # <<>> THEN Append(p.out, p.chunk) ELSE p.out

\* The messages of a view whose lines are records with their text
PackLines(lines) == Pack(lines, [n \in 1..Len(lines) |-> Len(lines[n].text)])

\* lines 510-549: the messages that follow the summary
Reports(lot_ids, details) ==
    [ids_only |-> PackLines(lines_ids_only(lot_ids, details)),
     with_time |-> PackLines(lines_with_time(lot_ids, details))]

\* An end of the batch that drops the session only when nothing failed
CreateEndKeepingFailed(w) ==
    /\ batch[w].pc = "loop"
    /\ ~HasPair(batch[w])
    /\ SESSION' = IF batch[w].failed = 0 THEN [SESSION EXCEPT ![batch[w].chat] = <<>>]
                  ELSE SESSION
    /\ batch' = [batch EXCEPT ![w].pc = "done",
                              ![w].reports = Reports(batch[w].lot_ids,
                                                     batch[w].created_details)]
    /\ sent' = [sent EXCEPT ![batch[w].chat] = <<"done", batch[w].created, batch[w].failed>>]
    /\ UNCHANGED <<state, previews, inventory, harness>>

\* cb_create after the loops, lines 507-549: the session is dropped, the summary
\* and the two report views are sent
CreateEnd(w) ==
    /\ batch[w].pc = "loop"
    /\ ~HasPair(batch[w])
    /\ SESSION' = [SESSION EXCEPT ![batch[w].chat] = <<>>]
    /\ batch' = [batch EXCEPT ![w].pc = "done",
                              ![w].reports = Reports(batch[w].lot_ids,
                                                     batch[w].created_details)]
    /\ sent' = [sent EXCEPT ![batch[w].chat] = <<"done", batch[w].created, batch[w].failed>>]
    /\ UNCHANGED <<state, previews, inventory, harness>>

\* A cancel that empties the whole session map
cb_cancel_all(k, edited) ==
    /\ previews[k] > 0
    /\ SESSION' = [c \in Keys |-> <<>>]
    /\ previews' = [previews EXCEPT ![k] = IF edited THEN @ - 1 ELSE @]
    /\ sent' = [sent EXCEPT ![k] = IF edited THEN <<"cancelled">> ELSE @]
    /\ UNCHANGED <<state, inventory, batch, harness>>

\* cb_cancel, lines 395-400
cb_cancel(k, edited) ==
    /\ previews[k] > 0
    /\ SESSION' = [SESSION EXCEPT ![k] = <<>>]
    /\ previews' = [previews EXCEPT ![k] = IF edited THEN @ - 1 ELSE @]
    /\ sent' = [sent EXCEPT ![k] = IF edited THEN <<"cancelled">> ELSE @]
    /\ UNCHANGED <<state, inventory, batch, harness>>


(***************************************************************************)
(* The plugin as a state machine                                           *)
(***************************************************************************)
vars == <<SESSION, state, previews, sent, inventory, batch, ptext, pdurs, fh, fhours, fphrase,
          rlens, rmsgs, ttext, tpieces, thours, tloc, tins, tonce, ttwice>>

InitialInventory ==
    << [id |-> 301, title |-> Catalog(301)[K_SUM_RU]],
       [id |-> 305, title |-> Catalog(305)[K_SUM_RU]] >>

HarnessIdle ==
    /\ ptext = <<>>
    /\ pdurs = <<>>
    /\ fh = 100
    /\ fhours = _ru_hours_phrase(100)
    /\ fphrase = _ru_duration_phrase(100)
    /\ rlens = <<>>
    /\ rmsgs = <<>>
    /\ ttext = <<>>
    /\ tpieces = 0
    /\ thours = 600
    /\ tloc = "ru"
    /\ tins = TRUE
    /\ tonce = _replace_hours_in_title(<<>>, 600, "ru", TRUE)
    /\ ttwice = _replace_hours_in_title(_replace_hours_in_title(<<>>, 600, "ru", TRUE),
                                        600, "ru", TRUE)

PluginIdle ==
    /\ SESSION = [k \in Keys |-> <<>>]
    /\ state = [k \in Keys |-> STATE_NONE]
    /\ previews = [k \in Keys |-> 0]
    /\ sent = [k \in Keys |-> <<"nothing">>]
    /\ inventory = InitialInventory
    /\ batch = [w \in Workers |-> IdleBatch]

Init == PluginIdle /\ HarnessIdle

\* What the store may answer to the save of the listing it would number id
Answers(id) == {RetRaise, RetDict(UrlOf(id)), RetInt(id), RetNone}

Message(k) ==
    \/ cmd_lcot(k)
    \/ \E text \in IdTexts, down \in {0} \cup CatalogIds : handle_lot_id(k, text, down)
    \/ \E text \in DurTexts : handle_durations(k, text)
    \/ \E text \in DiscTexts : handle_discount(k, text)

Callback(k, w) ==
    \/ \E edited \in BOOLEAN : cb_cancel(k, edited)
    \/ \E edited \in BOOLEAN : CreateBegin(w, k, edited)

\* The steps of handler thread w when save_lot answers in one of the ways kinds
ThreadOf(w, kinds) ==
    \/ \E ret \in {r \in Answers(NextStoreId) : r.kind \in kinds},
          attr \in {0, NextStoreId}, seen \in {"new", "old"} : Submit(w, ret, attr, seen)
    \/ CreateEnd(w)

Thread(w) == ThreadOf(w, {"raise", "dict", "int", "none"})

\* The steps of the chats ks served by the handler threads ws
NextOf(ks, ws) ==
    \/ \E k \in ks : Message(k)
    \/ \E k \in ks, w \in ws : Callback(k, w)
    \/ \E w \in ws : Thread(w)

\* The same with a store that answers in one of the ways kinds only
NextSliced(ks, ws, kinds) ==
    \/ \E k \in ks : Message(k)
    \/ \E k \in ks, w \in ws : Callback(k, w)
    \/ \E w \in ws : ThreadOf(w, kinds)

\* One chat, one handler thread
Next == NextOf({"chatA"}, {"t1"})

Spec == Init /\ [][Next]_vars

\* Two chats, one handler thread, a store that refuses every save
SpecChats == Init /\ [][NextSliced(Keys, {"t1"}, {"raise"})]_vars

\* One chat, two handler threads, a store that answers every save with the id
SpecThreads == Init /\ [][NextSliced({"chatA"}, Workers, {"int"})]_vars

\* One chat that can ask for the variants of listing 305 more than once, one handler
\* thread, a store that accepts every save and answers nothing
NextRepeat ==
    \/ cmd_lcot("chatA")
    \/ \E text \in RepeatTexts : handle_lot_id("chatA", text, 0)
    \/ \E text \in DurTexts : handle_durations("chatA", text)
    \/ \E text \in DiscTexts : handle_discount("chatA", text)
    \/ Callback("chatA", "t1")
    \/ ThreadOf("t1", {"none"})

SpecRepeat == Init /\ [][NextRepeat]_vars


(***************************************************************************)
(* DurationParser on its own: a text typed one character at a time         *)
(***************************************************************************)
ParseAlphabet == {"0", "1", "2", ".", ",", "d", " "}

MaxTextLen == 5

PluginFrozen == UNCHANGED <<SESSION, state, previews, sent, inventory, batch>>

TypeChar(c) ==
    /\ Len(ptext) < MaxTextLen
    /\ ptext' = Append(ptext, c)
    /\ pdurs' = _parse_durations(Append(ptext, c))
    /\ UNCHANGED <<fh, fhours, fphrase>>
    /\ UNCHANGED <<packing, rewriting>>
    /\ PluginFrozen

ClearText ==
    /\ ptext # <<>>
    /\ ptext' = <<>>
    /\ pdurs' = <<>>
    /\ UNCHANGED <<fh, fhours, fphrase>>
    /\ UNCHANGED <<packing, rewriting>>
    /\ PluginFrozen

ParseNext == (\E c \in ParseAlphabet : TypeChar(c)) \/ ClearText

ParseSpec == Init /\ [][ParseNext]_vars

(***************************************************************************)
(* PhraseFormatter on its own: the hour values 0, 0.25, 0.5, ...           *)
(***************************************************************************)
MaxQuarterHours == 2200

StepHours ==
    /\ fh < 25 * MaxQuarterHours
    /\ fh' = fh + 25
    /\ fhours' = _ru_hours_phrase(fh + 25)
    /\ fphrase' = _ru_duration_phrase(fh + 25)
    /\ UNCHANGED <<ptext, pdurs>>
    /\ UNCHANGED <<packing, rewriting>>
    /\ PluginFrozen

RewindHours ==
    /\ fh # 0
    /\ fh' = 0
    /\ fhours' = _ru_hours_phrase(0)
    /\ fphrase' = _ru_duration_phrase(0)
    /\ UNCHANGED <<ptext, pdurs>>
    /\ UNCHANGED <<packing, rewriting>>
    /\ PluginFrozen

PhraseNext == StepHours \/ RewindHours

PhraseSpec == Init /\ [][PhraseNext]_vars

(***************************************************************************)
(* PhraseFormatter into DurationParser: a duration is formatted and the    *)
(* phrase is read back                                                     *)
(***************************************************************************)
\* The phrase of the next hour value in locale, fed to _parse_durations
RoundTrip(locale) ==
    /\ fh < 25 * MaxQuarterHours
    /\ fh' = fh + 25
    /\ fhours' = _ru_hours_phrase(fh + 25)
    /\ fphrase' = IF locale = "ru" THEN _ru_duration_phrase(fh + 25)
                  ELSE _en_duration_phrase(fh + 25)
    /\ ptext' = fphrase'
    /\ pdurs' = _parse_durations(fphrase')
    /\ UNCHANGED <<packing, rewriting>>
    /\ PluginFrozen

RoundRewind ==
    /\ fh # 0
    /\ fh' = 0
    /\ fhours' = _ru_hours_phrase(0)
    /\ fphrase' = _ru_duration_phrase(0)
    /\ ptext' = <<>>
    /\ pdurs' = <<>>
    /\ UNCHANGED <<packing, rewriting>>
    /\ PluginFrozen

RoundNext == (\E locale \in {"ru", "en"} : RoundTrip(locale)) \/ RoundRewind

RoundSpec == Init /\ [][RoundNext]_vars

(***************************************************************************)
(* The packing of report lines on its own: lines of given lengths          *)
(***************************************************************************)
\* The lengths a report line can have: a line of one id, a line of some hundred
\* ids and phrases, the longest line that fits a message alone, and a longer one
LineLens == {20, 1700, 3499, 3600}

MaxLines == 4

\* lines 525 and 528: what acc holds for the lines of chunk
RECURSIVE AccOf(_, _)
AccOf(chunk, lens) ==
    IF chunk = <<>> THEN 0 ELSE lens[chunk[1]] + 1 + AccOf(Tail(chunk), lens)

\* The lines are numbered 1, 2, ...; the messages hold the numbers
AddLine(len) ==
    /\ Len(rlens) < MaxLines
    /\ rlens' = Append(rlens, len)
    /\ rmsgs' = Pack([n \in 1..(Len(rlens) + 1) |-> n], Append(rlens, len))
    /\ UNCHANGED <<ptext, pdurs, fh, fhours, fphrase, rewriting>>
    /\ PluginFrozen

ClearLines ==
    /\ rlens # <<>>
    /\ rlens' = <<>>
    /\ rmsgs' = <<>>
    /\ UNCHANGED <<ptext, pdurs, fh, fhours, fphrase, rewriting>>
    /\ PluginFrozen

ChunkNext == (\E len \in LineLens : AddLine(len)) \/ ClearLines

ChunkSpec == Init /\ [][ChunkNext]_vars

(***************************************************************************)
(* TitleRewriter on its own: a text put together from pieces               *)
(***************************************************************************)
\* Pieces of Russian titles and descriptions: plain words, the stopwatch, and
\* duration mentions of every kind the cascade of lines 180-194 looks for
RuPieces ==
    { <<"c_t", "c_e", "c_s", "c_t">>,
      <<TIMER>>,
      <<"c_n", "c_a", " ", "3", " ", "c_ch", "c_a", "c_s", "c_a">>,
      <<"c_o", "c_t", " ", "3", " ", "c_ch", ".">>,
      <<"c_n", "c_a", " ", "2", " ", "c_d", "c_n", "c_ya">>,
      <<"1", " ", "c_ch", "c_a", "c_s", " ", "=", " ", "5", " ", "c_ch", "c_a", "c_s">>,
      <<"5", " ", "c_ch", "c_a", "c_s", "c_o", "c_v", " ", "c_a", "c_r", "c_e", "c_n", "c_d", "c_y">>,
      <<BULLET, " ", "c_a", "c_r", "c_e", "c_n", "c_d", "c_a", " ", "3", " ", "c_ch">> }

\* Pieces of English titles and descriptions, for the cascade of lines 214-225
EnPieces ==
    { <<"V", "I", "P">>,
      <<TIMER>>,
      <<"f", "o", "r", " ", "3", " ", "h", "o", "u", "r", "s">>,
      <<"f", "r", "o", "m", " ", "3", "h">>,
      <<"F", "o", "r", " ", "2", " ", "d", "a", "y", "s">>,
      <<BULLET, " ", "r", "e", "n", "t", "a", "l", " ", "3", "h">>,
      <<"r", "e", "n", "t", "a", "l", " ", "2", "d">>,
      <<"3", " ", "h", "o", "u", "r", "s", " ", "r", "e", "n", "t", "a", "l">> }

PiecesOf(locale) == IF locale = "ru" THEN RuPieces ELSE EnPieces

\* What a text is rewritten to: 6 hours or one day in a title (allow_insert), 6 hours
\* in a description
TitleTargets ==
    {<<600, "ru", TRUE>>, <<2400, "ru", TRUE>>, <<600, "en", TRUE>>, <<2400, "en", TRUE>>,
     <<600, "ru", FALSE>>, <<600, "en", FALSE>>}

MaxPieces == 3

\* The text grows by piece, set apart by a space or not, and is rewritten twice
AddPiece(piece, spaced) ==
    /\ tpieces < MaxPieces
    /\ piece \in PiecesOf(tloc)
    /\ tpieces' = tpieces + 1
    /\ ttext' = IF spaced /\ ttext # <<>> THEN ttext \o <<" ">> \o piece ELSE ttext \o piece
    /\ tonce' = _replace_hours_in_title(ttext', thours, tloc, tins)
    /\ ttwice' = _replace_hours_in_title(tonce', thours, tloc, tins)
    /\ UNCHANGED <<thours, tloc, tins>>
    /\ UNCHANGED <<ptext, pdurs, fh, fhours, fphrase, packing>>
    /\ PluginFrozen

\* Another duration, locale or allow_insert, before the text is begun
Retarget(hours, locale, allow_insert) ==
    /\ tpieces = 0
    /\ <<hours, locale, allow_insert>> # <<thours, tloc, tins>>
    /\ thours' = hours
    /\ tloc' = locale
    /\ tins' = allow_insert
    /\ ttext' = <<>>
    /\ tpieces' = 0
    /\ tonce' = _replace_hours_in_title(<<>>, hours, locale, allow_insert)
    /\ ttwice' = _replace_hours_in_title(tonce', hours, locale, allow_insert)
    /\ UNCHANGED <<ptext, pdurs, fh, fhours, fphrase, packing>>
    /\ PluginFrozen

TitleNext ==
    \/ \E piece \in RuPieces \cup EnPieces, spaced \in BOOLEAN : AddPiece(piece, spaced)
    \/ \E target \in TitleTargets : Retarget(target[1], target[2], target[3])

TitleSpec == Init /\ [][TitleNext]_vars


(***************************************************************************)
(* Claims about the batch                                                  *)
(***************************************************************************)
\* C1: a submission that raises never aborts the batch.  While the batch runs,
\* created + failed is the number of pairs passed and every created listing has
\* one outcome; when it ends, created + failed = |lot_ids| x |durs|; a raise adds
\* one to failed and no outcome, a return adds one to created and the outcome of
\* its own (source, hours) pair, with or without an id; the pair whose submission
\* just raised is in no outcome.
C1_FaultIsolation ==
    /\ [](\A w \in Workers :
            /\ batch[w].created + batch[w].failed
                   = (batch[w].i - 1) * Len(batch[w].durs) + (batch[w].j - 1)
            /\ Len(batch[w].created_details) = batch[w].created
            /\ batch[w].pc = "done"
                   => batch[w].created + batch[w].failed
                         = Len(batch[w].lot_ids) * Len(batch[w].durs)
            /\ batch[w].ret.kind = "raise"
                   => \A n \in 1..Len(batch[w].created_details) :
                         ~(/\ batch[w].created_details[n][2] = batch[w].h
                           /\ batch[w].created_details[n][3] = batch[w].src_id))
    /\ [][\A w \in Workers :
            (batch[w].pc = "loop" /\ batch'[w].pc = "loop" /\ batch'[w] # batch[w])
               => IF batch'[w].ret.kind = "raise"
                  THEN /\ batch'[w].failed = batch[w].failed + 1
                       /\ batch'[w].created = batch[w].created
                       /\ batch'[w].created_details = batch[w].created_details
                  ELSE /\ batch'[w].created = batch[w].created + 1
                       /\ batch'[w].failed = batch[w].failed
                       /\ Len(batch'[w].created_details) = batch[w].created + 1
                       /\ SubSeq(batch'[w].created_details, 1, batch[w].created)
                             = batch[w].created_details
                       /\ batch'[w].created_details[batch[w].created + 1][2] = batch'[w].h
                       /\ batch'[w].created_details[batch[w].created + 1][3]
                             = batch'[w].src_id]_vars

\* Two sources by two durations, one submission raised, one accepted without an id
C1_Reached ==
    /\ batch["t1"].pc = "done"
    /\ Len(batch["t1"].lot_ids) = 2
    /\ Len(batch["t1"].durs) = 2
    /\ batch["t1"].created = 3
    /\ batch["t1"].failed = 1
    /\ \E n \in 1..3 : batch["t1"].created_details[n][1] = 0

\* C2: when save_lot answers with a structured response that carries an id, the
\* outcome recorded for that submission holds exactly that id
C2_StructuredIdKept ==
    \A w \in Workers :
        (/\ batch[w].ret.kind = "dict"
         /\ batch[w].created > 0
         /\ StructuredId(batch[w].ret) # 0)
           => batch[w].created_details[batch[w].created][1] = StructuredId(batch[w].ret)


(***************************************************************************)
(* Claims about the workflow                                               *)
(***************************************************************************)
\* C3: a chat that was last told its duration list was not understood is still in
\* WAIT_DURS, and one last told its discount was refused is still in WAIT_DISC
C3_StaysInStep ==
    \A k \in Keys :
        /\ sent[k] = <<"bad_durs">> => state[k] = STATE_WAIT_DURS
        /\ sent[k] = <<"bad_disc">> => state[k] = STATE_WAIT_DISC

\* C4: a WAIT_LOT step in which the fetch of one of the ids fails leaves the session
\* map as it was, whichever of the ids failed
C4_NoPartialSession ==
    [][\A k \in Keys :
          (/\ state[k] = STATE_WAIT_LOT
           /\ state'[k] = STATE_NONE
           /\ sent'[k][1] = "fetch_failed")
             => SESSION' = SESSION]_vars

\* The second id failed after the first was fetched, and the session of an earlier
\* run is still stored, complete
C4_Reached ==
    /\ sent["chatA"] = <<"fetch_failed", 305>>
    /\ state["chatA"] = STATE_NONE
    /\ SESSION["chatA"] # <<>>
    /\ SESSION["chatA"][1].lot_ids = <<301, 305>>
    /\ SESSION["chatA"][1].durs # <<>>

\* C5 as stated: a chat that has entered WAIT_LOT has no session stored
C5_RestartDiscards ==
    \A k \in Keys : state[k] = STATE_WAIT_LOT => SESSION[k] = <<>>

\* C5 as amended: entering WAIT_LOT leaves the stored session as it is; the step
\* that accepts a new id list replaces it as a whole, by a session of the new ids
\* and their listings with no durations and discount 0
C5_ReplacedOnAccept ==
    [][\A k \in Keys :
          /\ (state[k] # STATE_WAIT_LOT /\ state'[k] = STATE_WAIT_LOT)
                => SESSION'[k] = SESSION[k]
          /\ (state[k] = STATE_WAIT_LOT /\ state'[k] = STATE_WAIT_DURS)
                => /\ SESSION'[k] # <<>>
                   /\ SESSION'[k][1].lot_ids # <<>>
                   /\ DOMAIN SESSION'[k][1].bases = SeqToSet(SESSION'[k][1].lot_ids)
                   /\ \A id \in DOMAIN SESSION'[k][1].bases :
                         SESSION'[k][1].bases[id].fields = Catalog(id)
                   /\ SESSION'[k][1].durs = <<>>
                   /\ SESSION'[k][1].disc = 0]_vars

\* A chat that holds the preview of an earlier run has restarted and given new ids
C5_Reached ==
    /\ previews["chatA"] > 0
    /\ state["chatA"] = STATE_WAIT_DURS
    /\ sent["chatA"] = <<"ask_durs", 301>>
    /\ SESSION["chatA"] # <<>>
    /\ SESSION["chatA"][1].durs = <<>>

\* C6: the cancel button leaves no session for its chat and touches neither the
\* store nor a batch; a batch that ends leaves no session for its chat, whatever
\* it created and whatever failed
C6_TerminalDestroys ==
    [][/\ \A k \in Keys :
             (sent'[k] = <<"cancelled">> /\ previews'[k] = previews[k] - 1)
                => /\ SESSION'[k] = <<>>
                   /\ inventory' = inventory
                   /\ batch' = batch
       /\ \A w \in Workers :
             (batch[w].pc = "loop" /\ batch'[w].pc = "done")
                => SESSION'[batch[w].chat] = <<>>]_vars

\* A batch of four submissions that all raised has ended
C6_Reached ==
    /\ batch["t1"].pc = "done"
    /\ batch["t1"].created = 0
    /\ batch["t1"].failed = 4
    /\ sent["chatA"] = <<"done", 0, 4>>
    /\ SESSION["chatA"] = <<>>

\* C7: the price submitted for (src_id, h) reads, with six decimals, as the hourly
\* price of src_id itself (50 for 301, 30 for 305) times h times (1 - disc/100)
C7_OwnPrice ==
    \A w \in Workers :
        batch[w].src_id # 0
          => /\ FloatOf(Get(batch[w].fields, K_PRICE)).den = 1000000
             /\ FloatOf(Get(batch[w].fields, K_PRICE)).num
                   = (IF batch[w].src_id = 301 THEN 50 ELSE 30)
                        * batch[w].h * (10000 - batch[w].disc)

\* The second source, 24 hours, 20 percent off: 30 x 24 x 0.8
C7_Reached ==
    /\ batch["t1"].src_id = 305
    /\ batch["t1"].h = 2400
    /\ batch["t1"].disc = 2000
    /\ Get(batch["t1"].fields, K_PRICE) = <<"5", "7", "6", ".", "0", "0", "0", "0", "0", "0">>


\* C13: a message, a button press or a step of the running batch of one chat
\* leaves the session stored for every other chat as it was
C13_KeysIndependent ==
    [][\A a \in Keys :
          (\/ Message(a)
           \/ \E w \in Workers : Callback(a, w)
           \/ \E w \in Workers :
                 batch[w].chat = a /\ batch[w].pc = "loop" /\ batch'[w] # batch[w])
             => \A b \in Keys \ {a} : SESSION'[b] = SESSION[b]]_vars

\* The batch of one chat has ended and dropped its session while the other chat
\* holds a session with its durations and discount
C13_Reached ==
    /\ sent["chatA"] = <<"done", 0, 4>>
    /\ SESSION["chatA"] = <<>>
    /\ SESSION["chatB"] # <<>>
    /\ SESSION["chatB"][1].durs # <<>>
    /\ SESSION["chatB"][1].disc # 0


(***************************************************************************)
(* Claims about the parser                                                 *)
(***************************************************************************)
\* C8: the durations read from any text are strictly increasing and each is at
\* least 0.01 hours
C8_PositiveIncreasing ==
    /\ \A i \in 1..Len(pdurs) : pdurs[i] >= 1
    /\ \A i \in 1..Len(pdurs) - 1 : pdurs[i] < pdurs[i + 1]

\* C9: a text that is one duration number written with a decimal comma reads as
\* the same text written with a dot
C9_CommaAsDot ==
    (/\ \E i \in 1..Len(ptext) : ptext[i] = ","
     /\ FullMatch(DurTokenPattern, ptext) # <<>>)
       => pdurs = _parse_durations(CommaToDot(ptext))


(***************************************************************************)
(* Claims about the phrases                                                *)
(***************************************************************************)
\* C10 as stated: the hour word and the day word follow the rule in which a
\* numeral that is not whole takes the third form ("many"); forms are numbered
\* one = 1, few = 2, many = 3 and numerals are in hundredths
C10_StatedRule ==
    LET Form(n) ==
            IF n % 100 # 0 THEN 3
            ELSE IF (n \div 100) % 100 \in 11..19 THEN 3
            ELSE IF (n \div 100) % 10 = 1 THEN 1
            ELSE IF (n \div 100) % 10 \in 2..4 THEN 2
            ELSE 3
        WordOf(phrase) ==
            LET sp == CHOOSE i \in 1..Len(phrase) : phrase[i] = " "
            IN SubSeq(phrase, sp + 1, Len(phrase))
    IN /\ WordOf(fhours) = HourForms[Form(fh)]
       /\ (fh >= 2400 /\ fh % 2400 = 0) => WordOf(fphrase) = DayForms[Form(fh \div 24)]

\* C10 as amended: the same rule, except that a numeral that is not whole takes
\* the second form ("few"); day counts are always whole
C10_FewForFractions ==
    LET Form(n) ==
            IF n % 100 # 0 THEN 2
            ELSE IF (n \div 100) % 100 \in 11..19 THEN 3
            ELSE IF (n \div 100) % 10 = 1 THEN 1
            ELSE IF (n \div 100) % 10 \in 2..4 THEN 2
            ELSE 3
        WordOf(phrase) ==
            LET sp == CHOOSE i \in 1..Len(phrase) : phrase[i] = " "
            IN SubSeq(phrase, sp + 1, Len(phrase))
    IN /\ WordOf(fhours) = HourForms[Form(fh)]
       /\ (fh >= 2400 /\ fh % 2400 = 0) => WordOf(fphrase) = DayForms[Form(fh \div 24)]

\* 1.5 hours takes the second form of the hour word
C10_Reached ==
    /\ fh = 150
    /\ fhours = <<"1", ".", "5", " ">> \o HourForms[2]
    /\ fphrase = fhours

\* C11: each of the hour values 0.5, 1, 1.5, 6, 23, 24, 48 and 72, formatted as a
\* duration phrase and read back by the parser, yields that one value
C11_RoundTrip ==
    (ptext # <<>> /\ fh \in {50, 100, 150, 600, 2300, 2400, 4800, 7200})
       => pdurs = <<fh>>


(***************************************************************************)
(* Claims about the reports                                                *)
(***************************************************************************)
\* C12: in the view of ids and durations every line that lists an id lists as many
\* duration phrases as ids, and the i-th phrase is the duration of the variant
\* whose id is i-th
C12_Paired ==
    \A w \in Workers :
        \A m \in 1..Len(batch[w].reports.with_time) :
            \A l \in 1..Len(batch[w].reports.with_time[m]) :
                LET ln == batch[w].reports.with_time[m][l]
                IN ln.ids # <<>> =>
                   /\ Len(ln.times) = Len(ln.ids)
                   /\ \A i \in 1..Len(ln.ids) :
                         \E n \in 1..Len(batch[w].created_details) :
                            /\ batch[w].created_details[n][3] = ln.src
                            /\ IntStr(batch[w].created_details[n][1]) = ln.ids[i]
                            /\ _ru_duration_phrase(batch[w].created_details[n][2])
                                  = ln.times[i]

(***************************************************************************)
(* Claims about the confirm trigger and the batch                          *)
(***************************************************************************)

\* C15: a confirm trigger starts a batch only for a session whose durations have
\* been accepted and whose chat is not waiting for durations or for the discount
C15_ConfirmOnlyWhenComplete ==
    [][\A w \in Workers :
          (batch[w].pc # "loop" /\ batch'[w].pc = "loop")
            => /\ state[batch'[w].chat] \notin {STATE_WAIT_DURS, STATE_WAIT_DISC}
               /\ batch'[w].durs # <<>>]_vars

\* C16: no two handler threads run the loops of cb_create for the same chat at the
\* same time, so no session is handed to the loops twice
C16_HandedOnce ==
    \A w1 \in Workers, w2 \in Workers :
        (w1 # w2 /\ batch[w1].pc = "loop" /\ batch[w2].pc = "loop") => batch[w1].chat # batch[w2].chat

\* C17: the p-th submission of a batch is that of the p-th pair in source-major
\* order (sources in session order, for each the durations in their order), each
\* pair is passed once whether it failed or not, the outcomes are the successful
\* pairs in that order, and each report lists its sources in session order
C17_SourceMajorOnce ==
    \A w \in Workers :
        LET b == batch[w]
            n == Len(b.durs)
            passed == (b.i - 1) * n + (b.j - 1)
            pair(p) == <<b.durs[((p - 1) % n) + 1], b.lot_ids[((p - 1) \div n) + 1]>>
            at(m) == CHOOSE p \in 1..passed :
                        pair(p) = <<b.created_details[m][2], b.created_details[m][3]>>
            src_at(src) == CHOOSE x \in 1..Len(b.lot_ids) : b.lot_ids[x] = src
            flat(view) == Join(view, <<>>)
            ordered(view) ==
                \A x \in 1..Len(flat(view)), y \in 1..Len(flat(view)) :
                    x < y => src_at(flat(view)[x].src) < src_at(flat(view)[y].src)
        IN (b.pc \in {"loop", "done"} /\ n > 0) =>
              /\ passed = b.created + b.failed
              /\ passed > 0 => <<b.h, b.src_id>> = pair(passed)
              /\ \A m \in 1..Len(b.created_details) :
                    /\ \E p \in 1..passed :
                          pair(p) = <<b.created_details[m][2], b.created_details[m][3]>>
                    /\ \A l \in 1..(m - 1) : at(l) < at(m)
              /\ b.pc = "done" =>
                    /\ passed = Len(b.lot_ids) * n
                    /\ ordered(b.reports.ids_only)
                    /\ ordered(b.reports.with_time)

\* A batch of two sources by two durations has ended with the second and the third
\* submission refused, and each report has a line for either source
C17_Reached ==
    /\ batch["t1"].pc = "done"
    /\ batch["t1"].failed = 2
    /\ Len(batch["t1"].created_details) = 2
    /\ batch["t1"].created_details[1][3] = 301
    /\ batch["t1"].created_details[1][2] = 100
    /\ batch["t1"].created_details[2][3] = 305
    /\ batch["t1"].created_details[2][2] = 2400
    /\ Len(Join(batch["t1"].reports.ids_only, <<>>)) = 2
    /\ Len(Join(batch["t1"].reports.with_time, <<>>)) = 2

\* C18: the id recorded for a submission is the id of no listing that was in the
\* inventory before the submission and of no earlier outcome of the batch
C18_OwnListing ==
    [][\A w \in Workers :
          Len(batch'[w].created_details) = Len(batch[w].created_details) + 1
            => LET id == batch'[w].created_details[Len(batch'[w].created_details)][1]
               IN id # 0 =>
                    /\ \A x \in 1..Len(inventory) : inventory[x].id # id
                    /\ \A n \in 1..Len(batch[w].created_details) :
                          batch[w].created_details[n][1] # id]_vars

(***************************************************************************)
(* Claims about the packing of the reports                                 *)
(***************************************************************************)
\* C19: whatever the lines, every message sent carries at least one line, its lines
\* counted with one separator each total at most 3500 characters, and the messages
\* in order carry all the lines in order
C19_WithinBudget ==
    /\ \A m \in 1..Len(rmsgs) :
          /\ rmsgs[m] # <<>>
          /\ AccOf(rmsgs[m], rlens) <= REPORT_BUDGET
    /\ Join(rmsgs, <<>>) = [n \in 1..Len(rlens) |-> n]

(***************************************************************************)
(* Claims about the title rewriter                                         *)
(***************************************************************************)
\* C14: a rewritten text is returned as it was by a second rewrite with the same
\* hours, locale and allow_insert
C14_Idempotent == ttwice = tonce

\* The matches of pat in t, each with the position s it starts at and the threads m
\* of the matcher from there, the preferred one first
MatchesOf(pat, t) ==
    {sp \in {[s |-> s, m |-> Run(pat, t, StartAt(s))] : s \in 0..Len(t)} : sp.m # <<>>}

\* The occurrences re.subn replaces (lines 197 and 228): those of found that start
\* inside no occurrence taken before them
TakenOf(found) ==
    CHOOSE C \in SUBSET found :
        \A sp \in found :
            sp \in C <=> \A a \in C : ~(a.s < sp.s /\ sp.s < Head(a.m).p)

\* The occurrences of taken from left to right
InOrder(taken) ==
    [i \in 1..Cardinality(taken) |->
        CHOOSE sp \in taken : Cardinality({x \in taken : x.s < sp.s}) = i - 1]

\* t with the occurrences spans replaced by phrase (after m.group(1), where the
\* replacement of lines 181 keeps it) and the text between them as it was
Replaced(e, t, spans, phrase) ==
    Join([i \in 1..Len(spans) |->
             SubSeq(t, (IF i = 1 THEN 0 ELSE Head(spans[i - 1].m).p) + 1, spans[i].s)
                \o (IF e.keep1 THEN Group(t, Head(spans[i].m), 1) ELSE <<>>) \o phrase],
         <<>>)
      \o SubSeq(t, Head(spans[Len(spans)].m).p + 1, Len(t))

\* The first of patterns, from the i-th on, that matches somewhere in t, 0 when
\* none does
RECURSIVE FirstMatching(_, _, _)
FirstMatching(patterns, t, i) ==
    IF i > Len(patterns) THEN 0
    ELSE IF SearchFrom(patterns[i].pat, t, 0) # <<>> THEN i
    ELSE FirstMatching(patterns, t, i + 1)

\* What the cascade is to return for t when its k-th pattern decides
Expected(patterns, t, k, phrases) ==
    Replaced(patterns[k], t, InOrder(TakenOf(MatchesOf(patterns[k].pat, t))), phrases[k])

\* out is what the claim allows for t when the k-th pattern is the first that
\* matches (0: none)
Allowed(patterns, t, k, phrases, allow_insert, out) ==
    IF k = 0 THEN (~allow_insert => out = t)
    ELSE out = Expected(patterns, t, k, phrases)

\* The phrase each pattern of the cascade puts in, lines 181-194 and 215-225
PhrasesOf(locale, hours) ==
    IF locale = "ru"
    THEN <<_ru_hours_phrase(hours)>>
            \o [i \in 1..4 |-> <<"c_n", "c_a", " ">> \o _ru_duration_phrase(hours)]
    ELSE [i \in 1..5 |-> <<"f", "o", "r", " ">> \o _en_duration_phrase(hours)]

\* C20: the rewritten text is the text with every occurrence of the first pattern
\* that matches anywhere replaced by the phrase of the duration, the text outside
\* the occurrences as it was and no later pattern applied; a text that no pattern
\* matches is returned as it was when nothing may be inserted
C20_FirstMatchWins ==
    ttext # <<>> =>
       IF tloc = "ru"
       THEN Allowed(RuPatterns, ttext, FirstMatching(RuPatterns, ttext, 1),
                    PhrasesOf("ru", thours), tins, tonce)
       ELSE Allowed(EnPatterns, ttext, FirstMatching(EnPatterns, ttext, 1),
                    PhrasesOf("en", thours), tins, tonce)

\* 'for 3 hours For 2 days from 3h' rewritten to 6 hours: both occurrences of the
\* first pattern are replaced and the mention in days, which a later pattern
\* matches, stays
C20_Reached ==
    /\ tloc = "en"
    /\ thours = 600
    /\ ttext = <<"f", "o", "r", " ", "3", " ", "h", "o", "u", "r", "s", " ", "F", "o", "r", " ", "2", " ", "d", "a", "y", "s", " ", "f", "r", "o", "m", " ", "3", "h">>
    /\ tonce = <<"f", "o", "r", " ", "6", " ", "h", "o", "u", "r", "s", " ", "F", "o", "r", " ", "2", " ", "d", "a", "y", "s", " ", "f", "o", "r", " ", "6", " ", "h", "o", "u", "r", "s">>

(***************************************************************************)
(* Claims about the variant's field mapping                                *)
(***************************************************************************)
\* The keys cb_create writes, lines 454-469
WrittenKeys == {K_PRICE, K_SUM_RU, K_SUM_EN, K_DESC_RU, K_DESC_EN, K_OFFER, K_CSRF}

\* The text under key of listing id as the store gave it, rewritten to h hours;
\* a text that is absent stays absent
OriginalRewritten ==
    [id \in CatalogIds,
     h \in UNION {SeqToSet(DursTable[text]) : text \in DurTexts},
     key \in {K_SUM_RU, K_SUM_EN, K_DESC_RU, K_DESC_EN} |->
        IF Get(Catalog(id), key) = <<>> THEN <<>>
        ELSE _replace_hours_in_title(Get(Catalog(id), key), h,
                                     IF key \in {K_SUM_RU, K_DESC_RU} THEN "ru" ELSE "en",
                                     key \in {K_SUM_RU, K_SUM_EN})]

\* C21: the listings a session or a batch has captured stay as they were fetched;
\* the fields of every variant built are those of its source except the written
\* keys, and its titles and descriptions are the source's own texts rewritten
C21_BasesKept ==
    /\ \A k \in Keys :
          SESSION[k] # <<>> =>
             \A n \in 1..Len(SESSION[k][1].lot_ids) :
                SESSION[k][1].bases[SESSION[k][1].lot_ids[n]]
                   = BaseOf(Catalog(SESSION[k][1].lot_ids[n]))
    /\ \A w \in Workers :
          /\ \A n \in 1..Len(batch[w].lot_ids) :
                batch[w].bases[batch[w].lot_ids[n]] = BaseOf(Catalog(batch[w].lot_ids[n]))
          /\ batch[w].fields # NoFields =>
                /\ (DOMAIN batch[w].fields) \ WrittenKeys
                      = (DOMAIN Catalog(batch[w].src_id)) \ WrittenKeys
                /\ \A key \in (DOMAIN batch[w].fields) \ WrittenKeys :
                      batch[w].fields[key] = Catalog(batch[w].src_id)[key]
                /\ \A key \in {K_SUM_RU, K_SUM_EN, K_DESC_RU, K_DESC_EN} :
                      Get(batch[w].fields, key)
                         = OriginalRewritten[batch[w].src_id, batch[w].h, key]

\* The second variant of listing 301 has been built, after the first was saved:
\* its description is the original one rewritten to one day
C21_Reached ==
    /\ batch["t1"].pc = "loop"
    /\ batch["t1"].src_id = 301
    /\ batch["t1"].h = 2400
    /\ Len(batch["t1"].created_details) = 2
    /\ batch["t1"].fields[K_SERVER] = <<"E", "U">>
    /\ Get(batch["t1"].fields, K_DESC_EN) # Get(Catalog(301), K_DESC_EN)
    /\ Get(batch["t1"].fields, K_DESC_EN) = OriginalRewritten[301, 2400, K_DESC_EN]

====
